---- MODULE Spec2Model ----
(***************************************************************************)
(* Model of DatadogServiceEntityProvider (src/config.d.ts lines 46-407):   *)
(* connect(), run(), the paginated discoverServices() loop, the record     *)
(* mapper createServiceEntity() and the relationship translator            *)
(* extractRelationships() / parseDdEntityRef() / toEntityRef().            *)
(*                                                                         *)
(* JavaScript strings that the code takes apart (relationship ids, names,  *)
(* links.next) are sequences of one-character strings, so that split,      *)
(* startsWith, includes, the regular expressions and parseInt are computed *)
(* character by character.  An optional JavaScript value is a sequence of  *)
(* length 0 (undefined) or 1 (the value).                                  *)
(***************************************************************************)
EXTENDS Integers, Sequences, FiniteSets, TLC

\* ------------------------------------------------------------------ bounds
\* Requests one run may issue while its history is recorded.
MaxRequests == 2
\* Records one run may fetch while its history is recorded, and entities one
\* run may collect.
MaxRecords == 2

\* ------------------------------------------------------------------ state
VARIABLES
  connection,        \* this.connection: None until connect() stores it
  connectPc,         \* connect(): "idle", "scheduling" (line 122), "done":
                     \* the scheduler holds the task and may call run()
  runPc,             \* run(): "idle", "fetch", "apply", "resolved", "rejected"
  offset,            \* discoverServices: let offset
  backstageEntities, \* discoverServices: const backstageEntities
  error,             \* the error run() rejected with ("" when none)
  applied,           \* the applyMutation calls of the current run
  catalog,           \* the entities the destination holds for this provider:
                     \* None before any mutation, else the set of the last
                     \* full mutation the connection accepted
  console,           \* what the last page's records printed with console.log
  startedBy,         \* who called the current run: "caller" or "scheduler"
  connectedAtStart,  \* history: connect() had been called when the run began
  previous,          \* history: catalog when the current run began
  requests,          \* history: the GETs of the current run
  responses          \* history: their responses

vars == <<connection, connectPc, runPc, offset, backstageEntities,
          error, applied, catalog, console, startedBy, connectedAtStart,
          previous, requests, responses>>

connectVars == <<connection, connectPc>>
runVars == <<runPc, offset, backstageEntities, error, applied, catalog, console,
             startedBy, connectedAtStart, previous, requests, responses>>

\* ------------------------------------------------------- optional values
None == <<>>
Some(v) == <<v>>
IsSome(o) == Len(o) = 1
Val(o) == o[1]

\* ------------------------------------------------------------ characters
UpperChars == <<"A","B","C","D","E","F","G","H","I","J","K","L","M",
                "N","O","P","Q","R","S","T","U","V","W","X","Y","Z">>
LowerChars == <<"a","b","c","d","e","f","g","h","i","j","k","l","m",
                "n","o","p","q","r","s","t","u","v","w","x","y","z">>
DigitChars == <<"0","1","2","3","4","5","6","7","8","9">>

InSeq(c, s) == \E i \in 1..Len(s) : s[i] = c
IndexIn(c, s) == CHOOSE i \in 1..Len(s) : s[i] = c

\* String.prototype.toLowerCase / toLocaleLowerCase, one character.
LowerChar(c) == IF InSeq(c, UpperChars) THEN LowerChars[IndexIn(c, UpperChars)] ELSE c
toLowerCase(s) == [i \in 1..Len(s) |-> LowerChar(s[i])]

IsDigit(c) == InSeq(c, DigitChars)
\* The character class [a-z0-9-] of the name clean-up.
IsNameChar(c) == InSeq(c, LowerChars) \/ IsDigit(c) \/ c = "-"

\* The clean-up with the g flag forgotten: only the first character outside
\* the class is replaced.
CleanNameFirstOnly(raw) ==
  LET low == toLowerCase(raw)
      bad == {i \in 1..Len(low) : ~IsNameChar(low[i])}
  IN [i \in 1..Len(low) |->
        IF i \in bad /\ \A j \in bad : i <= j THEN "-" ELSE low[i]]

\* attributes.name.toLowerCase().replace(/[^a-z0-9-]/g, "-")
CleanName(raw) ==
  LET low == toLowerCase(raw)
  IN [i \in 1..Len(low) |-> IF IsNameChar(low[i]) THEN low[i] ELSE "-"]

\* ------------------------------------------------------- string helpers
\* id.split(":"): the pieces between consecutive colons, empty ones included
SplitColon(s) ==
  LET colons == {i \in 1..Len(s) : s[i] = ":"}
      n == Cardinality(colons)
      Cut(k) == IF k = 0 THEN 0
                ELSE IF k = n + 1 THEN Len(s) + 1
                ELSE CHOOSE i \in colons : Cardinality({j \in colons : j <= i}) = k
  IN [k \in 1..(n + 1) |-> SubSeq(s, Cut(k - 1) + 1, Cut(k) - 1)]

startsWith(s, prefix) ==
  Len(s) >= Len(prefix) /\ SubSeq(s, 1, Len(prefix)) = prefix

\* true when sub occurs in s at (1-based) position i
OccursAt(s, sub, i) ==
  i + Len(sub) - 1 <= Len(s) /\ SubSeq(s, i, i + Len(sub) - 1) = sub

includes(s, sub) == \E i \in 1..Len(s) : OccursAt(s, sub, i)

RelationTypePrefix == <<"R","e","l","a","t","i","o","n","T","y","p","e">>

\* parts.findIndex(p => p.startsWith("RelationType")), 0-based, -1 when none
FindRelTypeIdx(parts) ==
  IF \E i \in 1..Len(parts) : startsWith(parts[i], RelationTypePrefix)
  THEN (CHOOSE i \in 1..Len(parts) :
          /\ startsWith(parts[i], RelationTypePrefix)
          /\ \A j \in 1..(i - 1) : ~startsWith(parts[j], RelationTypePrefix)) - 1
  ELSE -1

\* parts[i] for a 0-based index: undefined outside the array
PartAt(parts, i) == IF i >= 0 /\ i < Len(parts) THEN Some(parts[i + 1]) ELSE None

\* JavaScript truthiness of a possibly-undefined string
Truthy(o) == IsSome(o) /\ Val(o) # <<>>

\* --------------------------------------------- relationship translator
\* The key set of ddToBackstageRelationType.
RelTypeDependsOn == <<"R","e","l","a","t","i","o","n","T","y","p","e","D","e","p","e","n","d","s","O","n">>
RelTypeDependencyOf == <<"R","e","l","a","t","i","o","n","T","y","p","e","D","e","p","e","n","d","e","n","c","y","O","f">>
RelTypeOwnedBy == <<"R","e","l","a","t","i","o","n","T","y","p","e","O","w","n","e","d","B","y">>
RelTypeOwnerOf == <<"R","e","l","a","t","i","o","n","T","y","p","e","O","w","n","e","r","O","f">>
RelTypePartsOf == <<"R","e","l","a","t","i","o","n","T","y","p","e","P","a","r","t","s","O","f">>
RelTypeHasPart == <<"R","e","l","a","t","i","o","n","T","y","p","e","H","a","s","P","a","r","t">>

\* ddToBackstageRelationType[relTypePart]: undefined for a key not in the table
ddToBackstageRelationType(part) ==
  IF part = RelTypeDependsOn THEN Some("dependsOn")
  ELSE IF part = RelTypeDependencyOf THEN Some("dependencyOf")
  ELSE IF part = RelTypeOwnedBy THEN Some("ownedBy")
  ELSE IF part = RelTypeOwnerOf THEN Some("ownerOf")
  ELSE IF part = RelTypePartsOf THEN Some("partOf")
  ELSE IF part = RelTypeHasPart THEN Some("hasPart")
  ELSE None

\* parseDdEntityRef(id): null (None) or {kind, namespace, name}
parseDdEntityRef(id) ==
  LET parts == SplitColon(id)
      relTypeIdx == FindRelTypeIdx(parts)
      kind == PartAt(parts, relTypeIdx + 1)
      namespace == PartAt(parts, relTypeIdx + 2)
      name == PartAt(parts, relTypeIdx + 3)
  IN IF relTypeIdx = -1 \/ relTypeIdx = 0 \/ relTypeIdx = Len(parts) - 1
     THEN None
     ELSE IF ~Truthy(kind) \/ ~Truthy(namespace) \/ ~Truthy(name)
     THEN None
     ELSE Some([kind |-> Val(kind), namespace |-> Val(namespace), name |-> Val(name)])

\* `${kind.toLocaleLowerCase()}:${namespace}/${name}`
toEntityRef(ref) ==
  toLowerCase(ref.kind) \o <<":">> \o ref.namespace \o <<"/">> \o ref.name

\* One iteration of the loop of extractRelationships: the relations pushed
\* for one related entity (none when the iteration hits a `continue`).
RelationsOfId(id) ==
  LET idParts == SplitColon(id)
      idx == FindRelTypeIdx(idParts)
      backstageType == IF idx = -1 THEN None
                       ELSE ddToBackstageRelationType(idParts[idx + 1])
      target == parseDdEntityRef(id)
  IN IF idx = -1 THEN <<>>
     ELSE IF ~IsSome(backstageType) THEN <<>>
     ELSE IF ~IsSome(target) THEN <<>>
     ELSE << [type |-> Val(backstageType), target |-> toEntityRef(Val(target))] >>

RECURSIVE RelationsOfIds(_)
RelationsOfIds(ids) ==
  IF ids = <<>> THEN <<>>
  ELSE RelationsOfId(Head(ids)) \o RelationsOfIds(Tail(ids))

\* extractRelationships(service)
\* A raw record's relationships field is an optional object with an optional
\* relatedEntities object with an optional data array of ids.
RelatedEntities(service) == Val(service.relationships).relatedEntities

\* extractRelationships(service), when the loop over
\* service.relationships.relatedEntities.data does not throw
extractRelationships(service) ==
  IF ~IsSome(service.relationships) THEN <<>>
  ELSE IF ~IsSome(RelatedEntities(service)) THEN <<>>
  ELSE RelationsOfIds(Val(Val(RelatedEntities(service)).data))

\* extractRelationships throws a TypeError: relatedEntities is there and its
\* data is undefined, so `for (const rel of undefined)` is evaluated.
ExtractThrows(service) ==
  /\ IsSome(service.relationships)
  /\ IsSome(RelatedEntities(service))
  /\ ~IsSome(Val(RelatedEntities(service)).data)

\* ------------------------------------------------------------- mapper
\* attributes.contacts?.find(c => c.type === t)?.contact
ContactOfType(contacts, t) ==
  IF \E i \in 1..Len(contacts) : contacts[i].type = t
  THEN contacts[CHOOSE i \in 1..Len(contacts) :
                  /\ contacts[i].type = t
                  /\ \A j \in 1..(i - 1) : contacts[j].type # t].contact
  ELSE ""

\* attributes.owner || squad contact || team contact || "unknown"
OwnerOf(attributes) ==
  IF attributes.owner # "" THEN attributes.owner
  ELSE IF ContactOfType(attributes.contacts, "squad") # ""
  THEN ContactOfType(attributes.contacts, "squad")
  ELSE IF ContactOfType(attributes.contacts, "team") # ""
  THEN ContactOfType(attributes.contacts, "team")
  ELSE "unknown"

\* The entity literal of createServiceEntity (lines 278-304).  The fields
\* description, annotations, tags, links and lifecycle are copied from the
\* attributes without influence on any other field and are left out.
EntityLiteral(attributes) ==
  [ apiVersion |-> "backstage.io/v1alpha1",
    kind |-> IF attributes.kind = "system" THEN "System" ELSE "Component",
    metadata |-> [ name |-> CleanName(Val(attributes.name)),
                   title |-> Val(attributes.name) ],
    spec |-> [ type |-> IF attributes.kind # "" THEN attributes.kind ELSE "service",
               owner |-> OwnerOf(attributes) ] ]

\* The guard of createServiceEntity: !attributes || !attributes.name
HasUsableName(service) ==
  /\ IsSome(service.attributes)
  /\ Truthy(Val(service.attributes).name)

\* createServiceEntity(service): None for the `return null`, else the entity
createServiceEntity(service) ==
  IF ~HasUsableName(service) THEN None
  ELSE Some(EntityLiteral(Val(service.attributes)))

\* createServiceEntity(service) throws: service is null and line 251 reads
\* service.attributes, or the name guard passed and the call of
\* extractRelationships on line 275 throws.
MapperThrows(service) ==
  \/ service.isNull
  \/ HasUsableName(service) /\ ExtractThrows(service)

\* Lines 204-211: the catch block of the record loop builds its warning from
\* catalogEntity.attributes?.name, which throws a TypeError itself when
\* catalogEntity is null (the ?. guards attributes, not catalogEntity).
CatchHandlerThrows(service) == service.isNull

\* What createServiceEntity prints with console.log(relationships) on line
\* 276: nothing for a skipped record (the early return comes first) and
\* nothing when line 275 threw.
ConsoleOf(service) ==
  IF ~HasUsableName(service) \/ ExtractThrows(service) THEN <<>>
  ELSE << extractRelationships(service) >>

\* ------------------------------------------------------------ pagination
limit == 100

\* The text the code looks for in links.next: "page%5Boffset%5D="
Marker == <<"p","a","g","e","%","5","B","o","f","f","s","e","t","%","5","D","=">>

\* The digits captured by (\d+) from position i on: the longest run
RECURSIVE DigitRun(_, _)
DigitRun(s, i) ==
  IF i <= Len(s) /\ IsDigit(s[i]) THEN <<s[i]>> \o DigitRun(s, i + 1) ELSE <<>>

\* next.match(/page%5Boffset%5D=(\d+)/): None for null, else match[1], taken
\* at the leftmost position where the whole pattern matches
MatchOffset(s) ==
  LET Hit(i) == OccursAt(s, Marker, i) /\ DigitRun(s, i + Len(Marker)) # <<>>
  IN IF \E i \in 1..Len(s) : Hit(i)
     THEN Some(DigitRun(s, (CHOOSE i \in 1..Len(s) :
                              Hit(i) /\ \A j \in 1..(i - 1) : ~Hit(j)) + Len(Marker)))
     ELSE None

\* parseInt(digits, 10) of a non-empty run of decimal digits
RECURSIVE parseInt(_)
parseInt(ds) ==
  IF ds = <<>> THEN 0
  ELSE parseInt(SubSeq(ds, 1, Len(ds) - 1)) * 10 + (IndexIn(ds[Len(ds)], DigitChars) - 1)

\* The next offset counted locally, offset + limit, whenever links.next
\* carries the marker.
NextOffsetLocal(body) ==
  IF /\ IsSome(body.links)
     /\ Val(body.links).next.t = "string"
     /\ includes(Val(body.links).next.str, Marker)
  THEN Some(offset + limit)
  ELSE None

\* Lines 215-230: the offset of the next request (hasNext = true), or None
\* (hasNext = false).  body.links is an optional object whose next is a value
\* [t, str]: undefined, a number, or a string with its characters.
NextOffset(body) ==
  IF /\ IsSome(body.links)
     /\ Val(body.links).next.t = "string"
     /\ includes(Val(body.links).next.str, Marker)
  THEN LET match == MatchOffset(Val(body.links).next.str)
       IN IF IsSome(match) /\ Val(match) # <<>>
          THEN Some(parseInt(Val(match)))
          ELSE None
  ELSE None

\* The loop with unshift in place of push: every new entity goes in front.
RECURSIVE PushEntitiesFront(_, _)
PushEntitiesFront(entities, data) ==
  IF data = <<>> THEN entities
  ELSE LET service == Head(data)
           next == IF MapperThrows(service) THEN entities
                   ELSE IF IsSome(createServiceEntity(service))
                   THEN <<Val(createServiceEntity(service))>> \o entities
                   ELSE entities
       IN PushEntitiesFront(next, Tail(data))

\* Lines 198-212: the loop over one page's records; a null and a throw of the
\* mapper both leave the record out.
RECURSIVE PushEntities(_, _)
PushEntities(entities, data) ==
  IF data = <<>> THEN entities
  ELSE LET service == Head(data)
           next == IF MapperThrows(service) THEN entities
                   ELSE IF IsSome(createServiceEntity(service))
                   THEN Append(entities, Val(createServiceEntity(service)))
                   ELSE entities
       IN PushEntities(next, Tail(data))

\* The records of a page the loop gets through: all of them, or those before
\* the first one on which the mapper and then the catch block throw.
Fatal(service) == MapperThrows(service) /\ CatchHandlerThrows(service)
PageAborts(data) == \E i \in 1..Len(data) : Fatal(data[i])
Processed(data) ==
  IF PageAborts(data)
  THEN SubSeq(data, 1, (CHOOSE i \in 1..Len(data) :
                          Fatal(data[i]) /\ \A j \in 1..(i - 1) : ~Fatal(data[j])) - 1)
  ELSE data

RECURSIVE ConsoleOfPage(_)
ConsoleOfPage(data) ==
  IF data = <<>> THEN <<>>
  ELSE ConsoleOf(Head(data)) \o ConsoleOfPage(Tail(data))

\* getProviderName()
getProviderName == "DatadogServiceEntityProvider"

\* The argument of connection.applyMutation on lines 140-146
MutationOf(entities) ==
  [ type |-> "full",
    entities |-> [i \in 1..Len(entities) |->
                    [entity |-> entities[i], locationKey |-> getProviderName]] ]

\* ------------------------------------------------ the remote catalog
\* Relationship ids the remote catalog serves.
ExampleId == <<"f","r","o","n","t","e","n","d",":","d","e","f","a","u","l","t","/","m","u","s","i","c","-","p","l","a","y","e","r","-","a","p","p",":","R","e","l","a","t","i","o","n","T","y","p","e","D","e","p","e","n","d","s","O","n",":","s","e","r","v","i","c","e",":","d","e","f","a","u","l","t","/","m","u","s","i","c","-","p","l","a","y","e","r","-","s","e","r","v","i","c","e">>
OwnedById == <<"s","v","c",":","d","e","f","a","u","l","t","/","a",":","R","e","l","a","t","i","o","n","T","y","p","e","O","w","n","e","d","B","y",":","T","e","a","m",":","d","e","f","a","u","l","t","/","x">>
ColonId == <<"a",":","R","e","l","a","t","i","o","n","T","y","p","e","H","a","s","P","a","r","t",":","S","e","r","v","i","c","e",":","n","s",":","b">>
UnknownTypeId == <<"a",":","R","e","l","a","t","i","o","n","T","y","p","e","F","o","o",":","k",":","n","s",":","b">>

NameMyService == <<"M","y"," ","S","e","r","v","i","c","e","!">>
NameApi2 == <<"a","p","i","-","2">>
NameX == <<"x">>

Attributes(name, kind, owner, contacts) ==
  [name |-> name, kind |-> kind, owner |-> owner, contacts |-> contacts]
Relationships(ids) == Some([relatedEntities |-> Some([data |-> Some(ids)])])

\* An element of a page's data array is a JSON object (isNull FALSE) with
\* optional attributes and relationships, or the JSON value null.
RecNull == [isNull |-> TRUE, attributes |-> None, relationships |-> None]
RecNoAttributes == [isNull |-> FALSE, attributes |-> None, relationships |-> None]
RecNoName ==
  [isNull |-> FALSE, attributes |-> Some(Attributes(None, "service", "", <<>>)), relationships |-> None]
RecEmptyName ==
  [isNull |-> FALSE, attributes |-> Some(Attributes(Some(<<>>), "", "", <<>>)),
   relationships |-> Relationships(<<ColonId>>)]
RecMyService ==
  [isNull |-> FALSE, attributes |-> Some(Attributes(Some(NameMyService), "", "",
                                  <<[type |-> "team", contact |-> "team-y"],
                                    [type |-> "squad", contact |-> "team-x"]>>)),
   relationships |-> Relationships(<<ExampleId, ColonId, UnknownTypeId, OwnedById>>)]
RecApi2 ==
  [isNull |-> FALSE, attributes |-> Some(Attributes(Some(NameApi2), "system", "platform", <<>>)),
   relationships |-> None]
RecNoRelData ==
  [isNull |-> FALSE, attributes |-> Some(Attributes(Some(NameX), "service", "", <<>>)),
   relationships |-> Some([relatedEntities |-> Some([data |-> None])])]

\* The records of the remote catalog, in the order the server lists them.
RemoteCatalog ==
  <<RecNoAttributes, RecNoRelData, RecMyService, RecApi2, RecNoName, RecEmptyName,
    RecNull>>

\* The data array of a page: up to MaxRecords consecutive records of the
\* remote catalog, starting anywhere (the server decides what an offset means).
Pages ==
  UNION { {SubSeq(RemoteCatalog, a, a + n - 1) :
             n \in {m \in 0..MaxRecords : a + m - 1 <= Len(RemoteCatalog)}} :
          a \in 1..Len(RemoteCatalog) }

\* Offsets the server's next links point at.
NextOffsets == {0, 25}

\* Decimal digits of a natural number.
RECURSIVE Digits(_)
Digits(n) ==
  IF n < 10 THEN <<DigitChars[n + 1]>>
  ELSE Digits(n \div 10) \o <<DigitChars[(n % 10) + 1]>>

\* A next link as the remote API writes it: the query string carries the
\* limit and the offset of the next page, percent-encoded.
LinkTo(n) ==
  <<"?","p","a","g","e","%","5","B","l","i","m","i","t","%","5","D","=","1","0","0","&">>
    \o Marker \o Digits(n)

JsonUndefined == [t |-> "undefined", str |-> <<>>]
JsonNumber == [t |-> "number", str |-> <<>>]
JsonString(chars) == [t |-> "string", str |-> chars]

\* The links field of a page body.
ValidLinks == {Some([next |-> JsonString(LinkTo(n))]) : n \in NextOffsets}
EndLinks ==
  { None,
    Some([next |-> JsonUndefined]),
    Some([next |-> JsonNumber]),
    Some([next |-> JsonString(<<"?","p","a","g","e","[","o","f","f","s","e","t","]","=","7">>)]),
    Some([next |-> JsonString(Marker \o <<"x">>)]) }
Links == ValidLinks \cup EndLinks

\* What one GET returns: a non-success status, a success whose body is not
\* JSON, or a success with a JSON body {data?, links?}.
HttpError == [ok |-> FALSE, json |-> FALSE, data |-> None, links |-> None]
BadJson == [ok |-> TRUE, json |-> FALSE, data |-> None, links |-> None]
PageBody(data, links) == [ok |-> TRUE, json |-> TRUE, data |-> data, links |-> links]
WellFormedResponses == {PageBody(Some(d), l) : d \in Pages, l \in Links}
Responses ==
  {HttpError, BadJson} \cup {PageBody(None, l) : l \in Links} \cup WellFormedResponses

Connections == {"catalog"}

\* ------------------------------------------------------------------- init
Init ==
  /\ connection = None
  /\ connectPc = "idle"
  /\ runPc = "idle"
  /\ offset = 0
  /\ backstageEntities = <<>>
  /\ error = ""
  /\ applied = <<>>
  /\ catalog = None
  /\ console = <<>>
  /\ startedBy = "caller"
  /\ connectedAtStart = FALSE
  /\ previous = None
  /\ requests = <<>>
  /\ responses = <<>>

\* ---------------------------------------------------------------- connect
\* connect() that hands the task over without storing the connection.
StoreNothing(conn) == None

\* Line 121: this.connection = connection
StoreConnection(conn) == Some(conn)

\* connect(), up to its await on line 122.
Connect ==
  /\ connectPc = "idle"
  /\ \E conn \in Connections : connection' = StoreConnection(conn)
  /\ connectPc' = "scheduling"
  /\ UNCHANGED runVars

\* Lines 122-127: schedule.run({id, fn}) hands the task to the scheduler,
\* which from then on may call fn, that is run().
ScheduleTask ==
  /\ connectPc = "scheduling"
  /\ connectPc' = "done"
  /\ UNCHANGED <<connection, runVars>>

\* -------------------------------------------------------------------- run
\* The batch kept as a field of the provider and never emptied.
NewBatchCarried(old) == old

\* Line 163: const backstageEntities: Entity[] = []
NewBatch(old) == <<>>

\* Lines 130-133 and 160-166: run() is called, one run at a time.  The
\* scheduler's task calls it once connect() has handed the task over.  A
\* direct call is explored on a provider connect() was not yet called on:
\* run() reads nothing that tells the two callers apart, so a direct call
\* after line 121 goes the way the scheduler's call goes.
RunStart(by) ==
  /\ runPc \in {"idle", "resolved", "rejected"}
  /\ by = "scheduler" => connectPc = "done"
  /\ by = "caller" => connectPc = "idle"
  /\ startedBy' = by
  /\ connectedAtStart' = (connectPc # "idle")
  /\ previous' = catalog
  /\ requests' = <<>>
  /\ responses' = <<>>
  /\ applied' = <<>>
  /\ console' = <<>>
  /\ IF ~IsSome(connection)
     THEN /\ runPc' = "rejected"
          /\ error' = "Not initialized"
          /\ UNCHANGED <<offset, backstageEntities>>
     ELSE /\ runPc' = "fetch"
          /\ error' = ""
          /\ offset' = 0
          /\ backstageEntities' = NewBatch(backstageEntities)
  /\ UNCHANGED <<connectVars, catalog>>

\* A non-success status that ends the pagination like a missing data field.
HttpErrorBreaks == "apply"
\* A missing data field that is thrown like a non-success status.
NoDataThrows == "rejected"

\* Where the loop goes on a non-success status (line 181: throw), on a body
\* that is not JSON (line 184: response.json() rejects) and on a body
\* without data (line 190: break), and when the catch block of the record
\* loop throws (caught and re-thrown on lines 234-247 and 151-157).
RecordErrorExit == "rejected"
HttpErrorExit == "rejected"
JsonErrorExit == "rejected"
NoDataExit == "apply"

\* Number of records in the data arrays of a sequence of responses.
RECURSIVE RecordCount(_)
RecordCount(rs) ==
  IF rs = <<>> THEN 0
  ELSE (IF IsSome(Head(rs).data) THEN Len(Val(Head(rs).data)) ELSE 0)
       + RecordCount(Tail(rs))

\* Lines 168-231: one iteration of the while loop, from the GET to the
\* decision about the next page.  With rec the request and its response
\* are appended to the history and at most MaxRequests are issued.
Fetch(resps, rec) ==
  /\ runPc = "fetch"
  /\ rec => Len(requests) < MaxRequests
  /\ \E resp \in resps :
       /\ requests' = IF rec THEN Append(requests, [limit |-> limit, offset |-> offset])
                      ELSE requests
       /\ responses' = IF rec THEN Append(responses, resp) ELSE responses
       /\ IF ~resp.ok
          THEN /\ runPc' = HttpErrorExit
               /\ error' = "HTTP"
               /\ UNCHANGED <<offset, backstageEntities, console>>
          ELSE IF ~resp.json
          THEN /\ runPc' = JsonErrorExit
               /\ error' = "JSON"
               /\ UNCHANGED <<offset, backstageEntities, console>>
          ELSE IF ~IsSome(resp.data)
          THEN /\ runPc' = NoDataExit
               /\ UNCHANGED <<offset, backstageEntities, console, error>>
          ELSE /\ rec => RecordCount(responses) + Len(Val(resp.data)) <= MaxRecords
               /\ Len(PushEntities(backstageEntities, Processed(Val(resp.data))))
                    <= MaxRecords
               /\ backstageEntities' =
                    PushEntities(backstageEntities, Processed(Val(resp.data)))
               /\ console' = ConsoleOfPage(Processed(Val(resp.data)))
               /\ IF PageAborts(Val(resp.data))
                  THEN /\ runPc' = RecordErrorExit
                       /\ error' = "TypeError"
                       /\ offset' = offset
                  ELSE /\ IF IsSome(NextOffset(resp))
                          THEN offset' = Val(NextOffset(resp)) /\ runPc' = "fetch"
                          ELSE offset' = offset /\ runPc' = "apply"
                       /\ UNCHANGED error
  /\ UNCHANGED <<connectVars, applied, catalog, startedBy, connectedAtStart, previous>>

Range(seq) == {seq[i] : i \in 1..Len(seq)}

\* Lines 140-157: connection.applyMutation is called with the batch; the
\* connection accepts it or rejects, and a rejection is re-thrown.
Apply ==
  /\ runPc = "apply"
  /\ applied' = Append(applied, [connection |-> Val(connection),
                                 mutation |-> MutationOf(backstageEntities)])
  /\ \E accepted \in BOOLEAN :
       IF accepted
       THEN /\ catalog' = Some(Range(MutationOf(backstageEntities).entities))
            /\ runPc' = "resolved"
            /\ UNCHANGED error
       ELSE /\ runPc' = "rejected"
            /\ error' = "mutation"
            /\ UNCHANGED catalog
  /\ UNCHANGED <<connectVars, offset, backstageEntities, console, startedBy,
                 connectedAtStart, previous, requests, responses>>

CallerRuns == RunStart("caller")
SchedulerRuns == RunStart("scheduler")
FetchPage == Fetch(Responses, TRUE)

Next ==
  \/ Connect
  \/ ScheduleTask
  \/ CallerRuns
  \/ SchedulerRuns
  \/ FetchPage
  \/ Apply

Spec == Init /\ [][Next]_vars

\* The same provider against a server that answers every request with a
\* successful page carrying a data array, without the history of requests.
\* Every awaited promise settles, so a loop iteration or applyMutation call
\* that can run does run.
FetchWellFormed == Fetch(WellFormedResponses, FALSE)

NextLive ==
  \/ Connect
  \/ ScheduleTask
  \/ CallerRuns
  \/ SchedulerRuns
  \/ FetchWellFormed
  \/ Apply

LiveSpec ==
  Init /\ [][NextLive]_vars /\ WF_vars(FetchWellFormed) /\ WF_vars(Apply)

\* ================================================================ properties
\* The records of all data arrays of a sequence of responses, in page order
\* then record order.
RECURSIVE FetchedRecords(_)
FetchedRecords(rs) ==
  IF rs = <<>> THEN <<>>
  ELSE (IF IsSome(Head(rs).data) THEN Val(Head(rs).data) ELSE <<>>)
       \o FetchedRecords(Tail(rs))

\* A record the mapper turns into an entity.
Mapped(r) == ~MapperThrows(r) /\ IsSome(createServiceEntity(r))

\* The batch the fetched pages call for: the mapped records, in order, each
\* paired with the provider's name.
ExpectedBatch(rs) ==
  LET kept == SelectSeq(FetchedRecords(rs), Mapped)
  IN [i \in 1..Len(kept) |->
        [entity |-> Val(createServiceEntity(kept[i])),
         locationKey |-> "DatadogServiceEntityProvider"]]

\* C1: a run that completed without error called applyMutation exactly once,
\* with type "full" and with exactly the mapped records of all pages fetched
\* in that run, in page order then record order, each with locationKey equal
\* to the provider's name.
C1_OneFullMutation ==
  runPc = "resolved" =>
    /\ Len(applied) = 1
    /\ applied[1].mutation.type = "full"
    /\ applied[1].mutation.entities = ExpectedBatch(responses)

\* A run over two pages with one mapped record each completed.
C1_Witness ==
  /\ runPc = "resolved"
  /\ Len(responses) = 2
  /\ Len(ExpectedBatch(SubSeq(responses, 1, 1))) = 1
  /\ Len(ExpectedBatch(SubSeq(responses, 2, 2))) = 1
  /\ Len(applied[1].mutation.entities) = 2
  /\ applied[1].mutation.entities[1] # applied[1].mutation.entities[2]

FailedResponse(r) == ~r.ok \/ ~r.json

\* C2: once a page request of a run returned a non-success status or a body
\* that is not JSON, on the first page or a later one, the run is rejected
\* with that error and applyMutation is not called in that run.
C2_FetchErrorNoMutation ==
  \A i \in 1..Len(responses) :
    FailedResponse(responses[i]) =>
      /\ runPc = "rejected"
      /\ error = (IF responses[i].ok THEN "JSON" ELSE "HTTP")
      /\ applied = <<>>

\* The second page failed after the first page had given an entity.
C2_Witness ==
  /\ Len(responses) = 2
  /\ ~responses[2].ok
  /\ ExpectedBatch(SubSeq(responses, 1, 1)) # <<>>
  /\ runPc = "rejected"

\* C3: a run fails with the not-connected error exactly when connect() had
\* not been called when it began; such a run issues no request and calls
\* applyMutation never; no run the scheduler started fails this way.
C3_NotConnected ==
  runPc # "idle" =>
    /\ (error = "Not initialized") <=> ~connectedAtStart
    /\ error = "Not initialized" =>
         runPc = "rejected" /\ requests = <<>> /\ applied = <<>>
    /\ startedBy = "scheduler" => error # "Not initialized"

\* run() was called before any connect() and was rejected.
C3_Witness ==
  /\ runPc = "rejected"
  /\ error = "Not initialized"
  /\ connectPc = "idle"
  /\ requests = <<>>

\* C4: the mutation of a successful run holds only entities mapped from the
\* pages fetched in that same run, whatever an earlier run submitted, and the
\* destination holds exactly the entities of that mutation afterwards.
C4_NoCarryOver ==
  runPc = "resolved" =>
    LET fetched == FetchedRecords(responses)
        mapped == {createServiceEntity(fetched[j]) :
                     j \in {k \in 1..Len(fetched) : Mapped(fetched[k])}}
    IN /\ \A i \in 1..Len(applied[1].mutation.entities) :
            /\ Some(applied[1].mutation.entities[i].entity) \in mapped
            /\ applied[1].mutation.entities[i] \in Val(catalog)
       /\ \A e \in Val(catalog) : Some(e.entity) \in mapped

\* A later run succeeded without an entity that the earlier run had submitted.
C4_Witness ==
  /\ runPc = "resolved"
  /\ IsSome(previous)
  /\ \E e \in Val(previous) : e \notin Val(catalog)

\* The relations an entity carries: its relations field, and none when it
\* has no such field.
RelationsCarried(entity) ==
  IF "relations" \in DOMAIN entity THEN entity.relations ELSE <<>>

\* C5: every entity the mapper produced for a fetched record carries as its
\* relations exactly the sequence the relationship translator returns for
\* that record.
C5_RelationsAttached ==
  LET fetched == FetchedRecords(responses)
  IN \A j \in 1..Len(fetched) :
       Mapped(fetched[j]) =>
         RelationsCarried(Val(createServiceEntity(fetched[j])))
           = extractRelationships(fetched[j])

\* The relation types of the vocabulary table and the relation each maps to.
Vocabulary ==
  { <<RelTypeDependsOn, "dependsOn">>, <<RelTypeDependencyOf, "dependencyOf">>,
    <<RelTypeOwnedBy, "ownedBy">>, <<RelTypeOwnerOf, "ownerOf">>,
    <<RelTypePartsOf, "partOf">>, <<RelTypeHasPart, "hasPart">> }

\* name is `namespace/name` with both parts non-empty and one slash
IsQualifiedName(seg) ==
  /\ Cardinality({i \in 1..Len(seg) : seg[i] = "/"}) = 1
  /\ seg[1] # "/"
  /\ seg[Len(seg)] # "/"

\* id has the form kind:namespace/name:RELATION_TYPE:kind:namespace/name with
\* RELATION_TYPE in the vocabulary
IsDocumentedId(id) ==
  LET seg == SplitColon(id)
  IN /\ Len(seg) = 5
     /\ seg[1] # <<>> /\ seg[4] # <<>>
     /\ Len(seg[2]) >= 3 /\ IsQualifiedName(seg[2])
     /\ Len(seg[5]) >= 3 /\ IsQualifiedName(seg[5])
     /\ \E v \in Vocabulary : v[1] = seg[3]

\* the relation the documented form calls for: the mapped type, and the
\* lowercased target kind followed by :namespace/name of the target
DocumentedType(id) == (CHOOSE v \in Vocabulary : v[1] = SplitColon(id)[3])[2]
DocumentedTargetRef(id) ==
  toLowerCase(SplitColon(id)[4]) \o <<":">> \o SplitColon(id)[5]

\* The ids of a record's related entities.
IdsOf(r) ==
  IF IsSome(r.relationships) /\ IsSome(RelatedEntities(r))
     /\ IsSome(Val(RelatedEntities(r)).data)
  THEN Val(Val(RelatedEntities(r)).data)
  ELSE <<>>

\* C6: for every relationship id of the documented form that was fetched, the
\* translator emits one relation with the mapped type and with the reference
\* `kind:namespace/name` of the target, kind lowercased.
C6_DocumentedIdTranslated ==
  LET fetched == FetchedRecords(responses)
  IN \A j \in 1..Len(fetched) :
       \A k \in 1..Len(IdsOf(fetched[j])) :
         LET id == IdsOf(fetched[j])[k]
         IN IsDocumentedId(id) =>
              /\ Len(RelationsOfId(id)) = 1
              /\ RelationsOfId(id)[1].type = DocumentedType(id)
              /\ RelationsOfId(id)[1].target = DocumentedTargetRef(id)

\* The characters a name may hold.
NameAlphabet ==
  {"a","b","c","d","e","f","g","h","i","j","k","l","m","n","o","p","q","r","s",
   "t","u","v","w","x","y","z","0","1","2","3","4","5","6","7","8","9","-"}

\* A raw record with no attributes block, or with a missing or empty name.
Nameless(r) ==
  \/ r.isNull
  \/ r.attributes = None
  \/ Val(r.attributes).name = None
  \/ Val(r.attributes).name = Some(<<>>)

LinkedOffset(links) ==
  IF /\ IsSome(links)
     /\ Val(links).next.t = "string"
     /\ \E n \in NextOffsets : Val(links).next.str = LinkTo(n)
  THEN Some(CHOOSE n \in NextOffsets : Val(links).next.str = LinkTo(n))
  ELSE None

\* C8: the first request of a run asks for offset 0 and each later one for
\* the offset of the previous response's links.next; no request follows a
\* response without such an offset; and the requests stop only there, so a
\* chain of N pages takes exactly N requests.
C8_OffsetsFollowLinks ==
  /\ Len(requests) = Len(responses)
  /\ requests # <<>> => requests[1].offset = 0
  /\ \A i \in 2..Len(requests) :
       /\ IsSome(LinkedOffset(responses[i - 1].links))
       /\ requests[i].offset = Val(LinkedOffset(responses[i - 1].links))
  /\ (runPc \in {"apply", "resolved"} /\ responses # <<>>
        /\ IsSome(responses[Len(responses)].data)) =>
       ~IsSome(LinkedOffset(responses[Len(responses)].links))

\* A chain of two pages, the second at an offset that is not the page size,
\* was fetched with two requests.
C8_Witness ==
  /\ runPc = "resolved"
  /\ Len(requests) = 2
  /\ requests[2].offset = 25
  /\ IsSome(responses[2].data)

\* C9: against a server that answers every request with a successful page
\* carrying a data array, a run that is fetching eventually completes.
C9_RunTerminates == (runPc = "fetch") ~> (runPc \in {"resolved", "rejected"})

\* C10: a successful response without a data field is the last of its run and
\* does not fail it: the batch stays what the earlier pages gave, and the one
\* call of applyMutation that follows submits exactly that batch as a full
\* mutation.
C10_NoDataEndsPagination ==
  \A i \in 1..Len(responses) :
    (responses[i].ok /\ responses[i].json /\ ~IsSome(responses[i].data)) =>
      /\ i = Len(responses)
      /\ error \notin {"HTTP", "JSON"}
      /\ \/ runPc = "apply" /\ applied = <<>>
         \/ runPc \in {"resolved", "rejected"} /\ Len(applied) = 1
      /\ LET earlier == ExpectedBatch(SubSeq(responses, 1, i - 1))
         IN /\ \A a \in 1..Len(applied) :
                 applied[a].mutation = [type |-> "full", entities |-> earlier]
            /\ Len(backstageEntities) = Len(earlier)

\* The second page had no data field and the run submitted the first page's
\* entity.
C10_Witness ==
  /\ runPc = "resolved"
  /\ Len(responses) = 2
  /\ ~IsSome(responses[2].data)
  /\ Len(applied[1].mutation.entities) = 1

\* A page of a run holds an element the mapper throws on.
HasThrowingRecord(resp) ==
  /\ resp.ok /\ resp.json /\ IsSome(resp.data)
  /\ \E k \in 1..Len(Val(resp.data)) : MapperThrows(Val(resp.data)[k])

\* C11: a throw of the mapper on one record is absorbed: the run is not
\* rejected for it, the batch is exactly the other records' entities in their
\* order, the pagination goes on from that page's links.next, and a run that
\* completes submitted that batch in its one full mutation.
C11_MapperThrowAbsorbed ==
  \A i \in 1..Len(responses) :
    HasThrowingRecord(responses[i]) =>
      /\ error # "TypeError"
      /\ runPc \in {"fetch", "apply", "resolved"} =>
           [k \in 1..Len(backstageEntities) |->
              [entity |-> backstageEntities[k],
               locationKey |-> "DatadogServiceEntityProvider"]]
             = ExpectedBatch(responses)
      /\ (i = Len(responses) /\ IsSome(LinkedOffset(responses[i].links))) =>
           runPc = "fetch" /\ offset = Val(LinkedOffset(responses[i].links))
      /\ runPc = "resolved" =>
           /\ Len(applied) = 1
           /\ applied[1].mutation =
                [type |-> "full", entities |-> ExpectedBatch(responses)]

\* The same for runs whose data elements are all objects: the mapper threw on
\* a record whose related entities have no data array, and the run went on.
C11_ObjectRecordsOnly ==
  \A i \in 1..Len(responses) :
    (HasThrowingRecord(responses[i])
       /\ \A j \in 1..Len(FetchedRecords(responses)) :
            ~FetchedRecords(responses)[j].isNull)
    => /\ error # "TypeError"
       /\ runPc \in {"fetch", "apply", "resolved"} =>
            [k \in 1..Len(backstageEntities) |->
               [entity |-> backstageEntities[k],
                locationKey |-> "DatadogServiceEntityProvider"]]
              = ExpectedBatch(responses)
       /\ (i = Len(responses) /\ IsSome(LinkedOffset(responses[i].links))) =>
            runPc = "fetch" /\ offset = Val(LinkedOffset(responses[i].links))
====
